---- MODULE Spec2Model ----
(***************************************************************************)
(* Model of the voice companion session of components/AIChatCompanion.tsx  *)
(* (src/unnamed/part_007): the React state and refs of the component, the  *)
(* closures its renders create, the asynchronous steps of handleConnect,   *)
(* and the callbacks of the live session (onopen, onmessage, onerror,      *)
(* onclose).                                                               *)
(*                                                                         *)
(* React semantics used (React 19, README badge):                          *)
(*  - a setter called inside a click handler is rendered, and its effects  *)
(*    are flushed, before the next event: the click actions end in render; *)
(*  - a setter called from a promise continuation or a transport callback  *)
(*    is rendered by a later scheduler task: the action Render;            *)
(*  - a closure sees the state values of the render that created it.       *)
(*    cleanup is useCallback(..., [isLive, isConnecting]), so the cleanup  *)
(*    a closure holds is determined by the isLive/isConnecting it captured.*)
(***************************************************************************)
EXTENDS Integers, Sequences, FiniteSets, TLC

\* ---------------------------------------------------------------- bounds
MaxConnects == 3     \* handleConnect invocations that pass the guard
MaxSessions == 2     \* the same, where the peer sends messages
MaxClock == 2        \* ticks of an output device clock
MaxTime == 3         \* largest value nextAudioStartTime may take
MaxDur == 2          \* longest audio chunk, in clock ticks
MaxText == 2         \* longest accumulator / committed text, in characters
MaxHistory == 2      \* committed turns
MaxTextMsgs == 3     \* messages that carry text or turnComplete
MaxToolCalls == 2    \* tool calls received
MaxSamples == 3      \* longest sample sequence given to the codec
MaxFrame == 2        \* longest microphone frame given to onaudioprocess
MaxNow == 2          \* last millisecond of the wall clock
MaxSpeaks == 3       \* calls of speak()

Calls == 1..MaxConnects
Null == 0

Chars == {"a", " "}
Deltas == {<<c>> : c \in Chars}
ToolNames == {"refresh_race_data", "other"}

VARIABLES
    apiKey,                    \* process.env.API_KEY is set
    mounted,                   \* the component instance is mounted
    isLive, isConnecting, error,
    transcriptionHistory, currentUserTranscription, currentModelTranscription,
    rendered,                  \* state values seen by the closures of the last render
    sessionPromiseRef, mediaStreamRef, inputAudioContextRef,
    outputAudioContextRef, scriptProcessorRef, mediaStreamSourceRef,
    analyserRef, animationFrameId, playingAudioSources, nextAudioStartTime,
    calls,                     \* handleConnect invocations: position and captured state
    nCalls,
    res,                       \* objects created by each invocation and their status
    thens,                     \* callbacks waiting on a pending session promise
    toolCalls, toolResults,    \* tool calls received / tool responses sent
    nText,                     \* text messages handled
    timers,                    \* pending setTimeout(navigateTo('dashboard'), 5000)
    clock,                     \* currentTime of the referenced output context
    lastEnd,                   \* scheduled end of the chunk started last on it
    decoding,                  \* onmessage suspended at `await decodeAudioData`
    codec,                     \* a sample sequence on its way through encode / decode
    stored,                    \* localStorage item TRANSCRIPTION_HISTORY_KEY
    speech,                    \* lib/audio.ts: the speak() calls and their sources
    dateNow,                   \* Date.now()
    turnIds,                   \* the id of each entry of transcriptionHistory
    obs                        \* observations of the last step (history variable)

vars == <<apiKey, mounted, isLive, isConnecting, error, transcriptionHistory,
          currentUserTranscription, currentModelTranscription, rendered,
          sessionPromiseRef, mediaStreamRef, inputAudioContextRef,
          outputAudioContextRef, scriptProcessorRef, mediaStreamSourceRef,
          analyserRef, animationFrameId, playingAudioSources, nextAudioStartTime,
          calls, nCalls, res, thens, toolCalls, toolResults, nText, timers,
          clock, lastEnd, decoding, codec, stored, speech, dateNow, turnIds, obs>>

\* The whole state as one record, so that handlers compose as functions.
Cur ==
    [apiKey |-> apiKey, mounted |-> mounted, isLive |-> isLive,
     isConnecting |-> isConnecting, error |-> error,
     transcriptionHistory |-> transcriptionHistory,
     currentUserTranscription |-> currentUserTranscription,
     currentModelTranscription |-> currentModelTranscription,
     rendered |-> rendered, sessionPromiseRef |-> sessionPromiseRef,
     mediaStreamRef |-> mediaStreamRef,
     inputAudioContextRef |-> inputAudioContextRef,
     outputAudioContextRef |-> outputAudioContextRef,
     scriptProcessorRef |-> scriptProcessorRef,
     mediaStreamSourceRef |-> mediaStreamSourceRef, analyserRef |-> analyserRef,
     animationFrameId |-> animationFrameId,
     playingAudioSources |-> playingAudioSources,
     nextAudioStartTime |-> nextAudioStartTime, calls |-> calls, nCalls |-> nCalls,
     res |-> res, thens |-> thens, toolCalls |-> toolCalls,
     toolResults |-> toolResults, nText |-> nText, timers |-> timers, clock |-> clock,
     lastEnd |-> lastEnd, decoding |-> decoding, codec |-> codec,
     stored |-> stored, speech |-> speech, dateNow |-> dateNow,
     turnIds |-> turnIds, obs |-> obs]

Commit(s) ==
    /\ apiKey' = s.apiKey
    /\ mounted' = s.mounted
    /\ isLive' = s.isLive
    /\ isConnecting' = s.isConnecting
    /\ error' = s.error
    /\ transcriptionHistory' = s.transcriptionHistory
    /\ currentUserTranscription' = s.currentUserTranscription
    /\ currentModelTranscription' = s.currentModelTranscription
    /\ rendered' = s.rendered
    /\ sessionPromiseRef' = s.sessionPromiseRef
    /\ mediaStreamRef' = s.mediaStreamRef
    /\ inputAudioContextRef' = s.inputAudioContextRef
    /\ outputAudioContextRef' = s.outputAudioContextRef
    /\ scriptProcessorRef' = s.scriptProcessorRef
    /\ mediaStreamSourceRef' = s.mediaStreamSourceRef
    /\ analyserRef' = s.analyserRef
    /\ animationFrameId' = s.animationFrameId
    /\ playingAudioSources' = s.playingAudioSources
    /\ nextAudioStartTime' = s.nextAudioStartTime
    /\ calls' = s.calls
    /\ nCalls' = s.nCalls
    /\ res' = s.res
    /\ thens' = s.thens
    /\ toolCalls' = s.toolCalls
    /\ toolResults' = s.toolResults
    /\ nText' = s.nText
    /\ timers' = s.timers
    /\ clock' = s.clock
    /\ lastEnd' = s.lastEnd
    /\ decoding' = s.decoding
    /\ codec' = s.codec
    /\ stored' = s.stored
    /\ speech' = s.speech
    /\ dateNow' = s.dateNow
    /\ turnIds' = s.turnIds
    /\ obs' = s.obs

\* ------------------------------------------------------------ observations
\* obs is rewritten by every step: the cleanup calls it made, whether it
\* handled an interruption or a turnComplete (and the deltas that message
\* carried), the chunk it started, the microphone frames it sent (and whether
\* one came from a script processor that is no longer the referenced one), and
\* whether the turnComplete it handled came with no delta since the last one.
NoObs ==
    [cleanups |-> 0, repeated |-> FALSE, emptyAfterEach |-> TRUE,
     interrupted |-> FALSE, stopped |-> 0, turnComplete |-> FALSE,
     user |-> <<>>,
     model |-> <<>>, start |-> -1, now |-> -1,
     frames |-> 0, lateFrame |-> FALSE, silent |-> FALSE,
     steps |-> <<>>, staleSend |-> FALSE]

\* The state a step starts from.
Begin == [Cur EXCEPT !.obs = NoObs]

\* ------------------------------------------------------------ audio codec
\* The index of '=' in the alphabet of the transport text; 0..63 are the
\* indices of the base64 digits.
Pad == 64

Int16Values == {-32768, -1, 0, 255, 256, 32767}

Samples == UNION {[1..n -> Int16Values] : n \in 0..MaxSamples}

\* new Uint8Array(int16.buffer): the bytes of the samples, low byte first.
RECURSIVE Uint8Array(_)
Uint8Array(int16) ==
    IF int16 = <<>> THEN <<>>
    ELSE LET u == Head(int16) % 65536
         IN  <<u % 256, u \div 256>> \o Uint8Array(Tail(int16))

\* btoa of the string whose char codes are b.
RECURSIVE btoa(_)
btoa(b) ==
    IF b = <<>> THEN <<>>
    ELSE IF Len(b) = 1
         THEN <<b[1] \div 4, (b[1] % 4) * 16, Pad, Pad>>
    ELSE IF Len(b) = 2
         THEN <<b[1] \div 4, (b[1] % 4) * 16 + b[2] \div 16, (b[2] % 16) * 4, Pad>>
    ELSE <<b[1] \div 4, (b[1] % 4) * 16 + b[2] \div 16,
           (b[2] % 16) * 4 + b[3] \div 64, b[3] % 64>>
         \o btoa(SubSeq(b, 4, Len(b)))

\* atob: the char codes of the decoded string.
RECURSIVE atob(_)
atob(t) ==
    IF Len(t) < 4 THEN <<>>
    ELSE (IF t[3] = Pad THEN <<t[1] * 4 + t[2] \div 16>>
          ELSE IF t[4] = Pad
               THEN <<t[1] * 4 + t[2] \div 16, (t[2] % 16) * 16 + t[3] \div 4>>
          ELSE <<t[1] * 4 + t[2] \div 16, (t[2] % 16) * 16 + t[3] \div 4,
                 (t[3] % 4) * 64 + t[4]>>)
         \o atob(SubSeq(t, 5, Len(t)))

\* binary += String.fromCharCode(bytes[i]); return btoa(binary)
encode(bytes) == btoa(bytes)

\* bytes[i] = binaryString.charCodeAt(i) over atob(base64)
decode(base64) == atob(base64)

\* new Int16Array(data.buffer): pairs of bytes as signed 16-bit integers.
RECURSIVE Int16ArrayBigEndian(_)
Int16ArrayBigEndian(data) ==
    IF Len(data) < 2 THEN <<>>
    ELSE LET u == data[1] * 256 + data[2]
         IN  <<IF u >= 32768 THEN u - 65536 ELSE u>>
             \o Int16ArrayBigEndian(SubSeq(data, 3, Len(data)))

RECURSIVE Int16Array(_)
Int16Array(data) ==
    IF Len(data) < 2 THEN <<>>
    ELSE LET u == data[1] + data[2] * 256
         IN  <<IF u >= 32768 THEN u - 65536 ELSE u>>
             \o Int16Array(SubSeq(data, 3, Len(data)))

\* The samples of inputBuffer.getChannelData(0), each written as the integer
\* k of the normalized value k/32768 (every such value is exact in a Float32).
Float32Values == {-32768, -32767, -1, 0, 1, 32767, 32768}

Frames == UNION {[1..n -> Float32Values] : n \in 0..MaxFrame}

\* int16[i] = x: the store into an Int16Array truncates x and keeps its low
\* 16 bits, read as a two's complement number.
ToInt16(x) ==
    LET m == x % 65536
    IN  IF m >= 32768 THEN m - 65536 ELSE m

\* for (i < l) int16[i] = inputData[i] * 32768, with inputData[i] = k/32768.
Quantized(inputData) ==
    [i \in 1..Len(inputData) |-> ToInt16((inputData[i] * 32768) \div 32768)]

NoCodec ==
    [pc |-> "none", inputData |-> <<>>, int16 |-> <<>>, data |-> <<>>,
     dataInt16 |-> <<>>]

\* ------------------------------------------------------------ speak()
\* lib/audio.ts. Call k of speak() creates at most one source, named k.
\* pc: where call k stands; src: the state of its source (playing; finished
\* or stopped with the 'ended' event still to be dispatched; ended);
\* currentSpeechSource; started: the source started last.
Speaks == 1..MaxSpeaks

NoSpeech ==
    [n |-> 0, pc |-> [k \in Speaks |-> "none"], src |-> [k \in Speaks |-> "none"],
     currentSpeechSource |-> Null, started |-> Null]

\* await ensureAudioContextRunning() is over; then the API key check.
speakResumed(s, k, ok) ==
    [s EXCEPT !.speech.pc[k] =
                  IF ok /\ s.apiKey THEN "awaitGenerate" ELSE "failed"]

\* await ai.models.generateContent(...) is over.
speakGenerated(s, k, outcome) ==
    [s EXCEPT !.speech.pc[k] =
                  CASE outcome = "audio" -> "awaitDecode"
                    [] outcome = "noAudio" -> "done"
                    [] OTHER -> "failed"]

\* if (currentSpeechSource) { stop(); disconnect() }
stopCurrent(sp) ==
    IF sp.currentSpeechSource # Null /\ sp.src[sp.currentSpeechSource] = "playing"
    THEN [sp EXCEPT !.src[sp.currentSpeechSource] = "stopped"]
    ELSE sp

\* The statements after `await decodeAudioData`: stop the current source,
\* start the new one, make it the current one.
playNoStop(s, k) ==
    [s EXCEPT !.speech = [@ EXCEPT !.src[k] = "playing",
                                      !.currentSpeechSource = k,
                                      !.started = k, !.pc[k] = "done"]]

play(s, k) ==
    [s EXCEPT !.speech = [stopCurrent(@) EXCEPT !.src[k] = "playing",
                                                   !.currentSpeechSource = k,
                                                   !.started = k,
                                                   !.pc[k] = "done"]]

\* source.onended
onended(s, k) ==
    [s EXCEPT !.speech.src[k] = "ended",
              !.speech.currentSpeechSource = IF @ = k THEN Null ELSE @]

\* ------------------------------------------------------------ React state
\* A setter of an unmounted component is dropped by React.
setIsLive(s, v) == IF s.mounted THEN [s EXCEPT !.isLive = v] ELSE s
setIsConnecting(s, v) == IF s.mounted THEN [s EXCEPT !.isConnecting = v] ELSE s
setError(s, v) == IF s.mounted THEN [s EXCEPT !.error = v] ELSE s

\* ------------------------------------------------------------ resources
NoRes ==
    [mic |-> "none", inCtx |-> "none", outCtx |-> "none", proc |-> "none",
     analyser |-> "none", session |-> "none", promise |-> "none", twice |-> FALSE,
     sent |-> FALSE]

\* Releasing object `field` of invocation id: counted per object, so that a
\* second release of the same object is visible.
Release(s, id, field, to) ==
    IF id = Null THEN s
    ELSE [s EXCEPT !.res[id][field] = to,
                   !.res[id].twice = @ \/ s.res[id][field] = to]

ResourceSetEmpty(s) ==
    /\ s.mediaStreamRef = Null
    /\ s.inputAudioContextRef = Null
    /\ s.outputAudioContextRef = Null
    /\ s.scriptProcessorRef = Null
    /\ s.analyserRef = Null
    /\ s.sessionPromiseRef = Null

\* An earlier teardown released a full set and nothing was acquired since.
TornDown(s) ==
    /\ ResourceSetEmpty(s)
    /\ \E c \in Calls : s.res[c].mic = "stopped" /\ s.res[c].outCtx = "closed"

ResourceSetFull(s) ==
    /\ s.mediaStreamRef # Null
    /\ s.inputAudioContextRef # Null
    /\ s.outputAudioContextRef # Null
    /\ s.scriptProcessorRef # Null
    /\ s.analyserRef # Null
    /\ s.sessionPromiseRef # Null

\* ------------------------------------------------------------ cleanup
\* `isLive && setIsLive(false); isConnecting && setIsConnecting(false)` with the
\* isLive / isConnecting of the render that created this cleanup.
resetFlags(s, capLive, capConnecting) ==
    LET s1 == IF capLive THEN setIsLive(s, FALSE) ELSE s
    IN  IF capConnecting THEN setIsConnecting(s1, FALSE) ELSE s1

\* Bookkeeping: the parts of cleanup a step has run, in the order they ran.
did(s, part) == [s EXCEPT !.obs.steps = Append(@, part)]

stopVisualization(s) == did([s EXCEPT !.animationFrameId = FALSE], "visualization")

stopPlayback(s) == did([s EXCEPT !.playingAudioSources = {}], "playback")

disconnectGraphKeepsHandler(s) ==
    LET s1 == [Release(s, s.analyserRef, "analyser", "disconnected")
                  EXCEPT !.analyserRef = Null]
    IN  did([s1 EXCEPT !.scriptProcessorRef = Null, !.mediaStreamSourceRef = Null],
            "graph")

disconnectGraph(s) ==
    LET s1 == [Release(s, s.analyserRef, "analyser", "disconnected")
                  EXCEPT !.analyserRef = Null]
        s2 == [Release(s1, s1.scriptProcessorRef, "proc", "disconnected")
                  EXCEPT !.scriptProcessorRef = Null]
    IN  did([s2 EXCEPT !.mediaStreamSourceRef = Null], "graph")

closeContexts(s) ==
    LET s1 == [Release(s, s.inputAudioContextRef, "inCtx", "closed")
                  EXCEPT !.inputAudioContextRef = Null]
    IN  did([Release(s1, s1.outputAudioContextRef, "outCtx", "closed")
                EXCEPT !.outputAudioContextRef = Null], "contexts")

stopMicrophoneKeepRef(s) ==
    did(Release(s, s.mediaStreamRef, "mic", "stopped"), "microphone")

stopMicrophone(s) ==
    did([Release(s, s.mediaStreamRef, "mic", "stopped")
            EXCEPT !.mediaStreamRef = Null], "microphone")

clearSession(s) == did([s EXCEPT !.sessionPromiseRef = Null], "session")

cleanupSessionFirst(s, capLive, capConnecting) ==
    LET s1 == stopMicrophone(closeContexts(disconnectGraph(
                  stopPlayback(stopVisualization(clearSession(
                      resetFlags(s, capLive, capConnecting)))))))
    IN  [s1 EXCEPT !.obs.cleanups = @ + 1,
                   !.obs.repeated = @ \/ TornDown(s),
                   !.obs.emptyAfterEach = @ /\ ResourceSetEmpty(s1)]

cleanup(s, capLive, capConnecting) ==
    LET s1 == clearSession(stopMicrophone(closeContexts(disconnectGraph(
                  stopPlayback(stopVisualization(
                      resetFlags(s, capLive, capConnecting)))))))
    IN  [s1 EXCEPT !.obs.cleanups = @ + 1,
                   !.obs.repeated = @ \/ TornDown(s),
                   !.obs.emptyAfterEach = @ /\ ResourceSetEmpty(s1)]

\* ------------------------------------------------------------ session promise
\* Bookkeeping: a message is sent on session p; the send is stale when p is
\* not the session sessionPromiseRef refers to, or when p is no longer open.
sent(s, p) ==
    [s EXCEPT !.obs.staleSend =
                  @ \/ s.sessionPromiseRef # p \/ s.res[p].session # "open"]

\* The body of a `.then` callback registered on the promise of session p.
RunThen(s, t) ==
    CASE t.kind = "close" ->
            \* session.close()
            IF s.res[t.p].session = "open"
            THEN [s EXCEPT !.res[t.p].session = "closing"]
            ELSE s
      [] t.kind = "tool" ->
            \* session.sendToolResponse({functionResponses: {id, name, response}})
            sent([s EXCEPT !.toolResults =
                     Append(@, [on |-> t.p, id |-> t.id,
                                open |-> s.res[t.p].session = "open"])], t.p)
      [] t.kind = "frame" ->
            \* session.sendRealtimeInput({media: pcmBlob}), for a frame of the
            \* script processor t.id
            sent([s EXCEPT !.res[t.id].sent = TRUE,
                           !.obs.frames = @ + 1,
                           !.obs.lateFrame = @ \/ s.scriptProcessorRef # t.id], t.p)

\* promise.then(cb): cb runs as a microtask of this step when the promise is
\* already resolved, and waits for the resolution otherwise.
ThenFirst(s, p, kind, id) ==
    LET t == [p |-> p, kind |-> kind, id |-> id]
    IN  IF s.res[p].promise = "resolved"
        THEN RunThen(s, t)
        ELSE [s EXCEPT !.thens = <<t>> \o @]

Then(s, p, kind, id) ==
    LET t == [p |-> p, kind |-> kind, id |-> id]
    IN  IF s.res[p].promise = "resolved"
        THEN RunThen(s, t)
        ELSE [s EXCEPT !.thens = Append(@, t)]

RECURSIVE RunThens(_, _, _)
RunThens(s, p, ts) ==
    IF ts = <<>> THEN s
    ELSE IF Head(ts).p = p
         THEN RunThens(RunThen(s, Head(ts)), p, Tail(ts))
         ELSE RunThens([s EXCEPT !.thens = Append(@, Head(ts))], p, Tail(ts))

\* The promise of session p resolves: its waiting callbacks run in order.
Resolve(s, p) ==
    RunThens([s EXCEPT !.res[p].promise = "resolved", !.thens = <<>>], p, s.thens)

\* ------------------------------------------------------------ disconnect
handleDisconnect(s, capLive, capConnecting) ==
    LET s1 == IF s.sessionPromiseRef # Null
              THEN Then(s, s.sessionPromiseRef, "close", 0)
              ELSE s
    IN  cleanup(s1, capLive, capConnecting)

\* ------------------------------------------------------------ render
RenderedOf(s) ==
    [isLive |-> s.isLive, isConnecting |-> s.isConnecting,
     user |-> s.currentUserTranscription, model |-> s.currentModelTranscription,
     hasHistory |-> s.transcriptionHistory # <<>>]

\* A render and its effects. handleDisconnect changes identity exactly when
\* isLive or isConnecting changed, and then the effect
\* `useEffect(() => () => handleDisconnect(), [handleDisconnect])` runs the
\* cleanup function of the previous render, which calls that render's
\* handleDisconnect.
\* localStorage.removeItem(TRANSCRIPTION_HISTORY_KEY)
Removed == [present |-> FALSE, value |-> <<>>]

\* localStorage.setItem(TRANSCRIPTION_HISTORY_KEY, JSON.stringify(
\* transcriptionHistory)), the effect with deps [transcriptionHistory]
SavedWithFragments(s) ==
    [present |-> TRUE,
     value |-> s.transcriptionHistory
               \o (IF s.currentModelTranscription = <<>> THEN <<>>
                   ELSE <<[role |-> "model",
                           text |-> s.currentModelTranscription]>>)]

Saved(s) == [present |-> TRUE, value |-> s.transcriptionHistory]

\* The effects of the last render are up to date with the state.
UpToDate(s) ==
    /\ s.rendered = RenderedOf(s)
    /\ s.stored.present /\ s.stored.value = s.transcriptionHistory

RECURSIVE render(_)
render(s) ==
    IF ~s.mounted \/ UpToDate(s) THEN s
    ELSE LET old == s.rendered
             s1 == [s EXCEPT !.rendered = RenderedOf(s), !.stored = Saved(s)]
         IN  IF old.isLive = s.isLive /\ old.isConnecting = s.isConnecting
             THEN s1
             ELSE render(handleDisconnect(s1, old.isLive, old.isConnecting))

\* ------------------------------------------------------------ handleConnect
NoCall ==
    [pc |-> "none", err |-> "none", user |-> <<>>, model |-> <<>>,
     deltas |-> FALSE]

\* catch (err) { setError(...); setIsConnecting(false); cleanup(); }
\* cleanup is the one of the render handleConnect was created in: the guard
\* let the call through, so that render had isLive = isConnecting = false.
catchNoReset(s, c, msg) ==
    cleanup([setError(s, msg) EXCEPT !.calls[c].pc = "failed",
                                     !.calls[c].err = msg],
            FALSE, FALSE)

catch(s, c, msg) ==
    cleanup([setIsConnecting(setError(s, msg), FALSE)
                 EXCEPT !.calls[c].pc = "failed", !.calls[c].err = msg],
            FALSE, FALSE)

\* sessionPromiseRef.current = ai.live.connect({...})
liveConnect(s, c) ==
    [s EXCEPT !.res[c].session = "opening", !.res[c].promise = "pending",
              !.sessionPromiseRef = c, !.calls[c].pc = "done"]

\* if (outputAudioContextRef.current.state === 'suspended') await resume()
afterResumeIn(s, c, suspOut) ==
    IF s.outputAudioContextRef = Null
    THEN catch(s, c, "device")      \* TypeError: reading `state` of null
    ELSE IF suspOut THEN [s EXCEPT !.calls[c].pc = "awaitResumeOut"]
         ELSE liveConnect(s, c)

\* new AudioContext x 2, then if (inputAudioContextRef.current.state ===
\* 'suspended') await resume()
createContexts(s, c, suspIn, suspOut) ==
    LET s1 == [s EXCEPT !.inputAudioContextRef = c, !.outputAudioContextRef = c,
                        !.res[c].inCtx = "open", !.res[c].outCtx = "open",
                        !.clock = 0, !.lastEnd = -1]
    IN  IF suspIn THEN [s1 EXCEPT !.calls[c].pc = "awaitResumeIn"]
        ELSE afterResumeIn(s1, c, suspOut)

\* getUserMedia resolved: mediaStreamRef.current = stream, then the contexts.
micGranted(s, c, suspIn, suspOut) ==
    createContexts([s EXCEPT !.mediaStreamRef = c, !.res[c].mic = "open"],
                   c, suspIn, suspOut)

\* The synchronous part of handleConnect, up to the first await.
handleConnectNoKeyCheck(s, c) ==
    LET s1 == setError(setIsConnecting(s, TRUE), "none")
    IN  [s1 EXCEPT !.nCalls = c,
                   !.calls[c] = [pc |-> "awaitMic", err |-> "none",
                                 user |-> s.rendered.user,
                                 model |-> s.rendered.model,
                                 deltas |-> FALSE]]

handleConnect(s, c) ==
    LET s1 == setError(setIsConnecting(s, TRUE), "none")
        s2 == [s1 EXCEPT !.nCalls = c,
                         !.calls[c] = [pc |-> "awaitMic", err |-> "none",
                                       user |-> s.rendered.user,
                                       model |-> s.rendered.model,
                                       deltas |-> FALSE]]
    IN  IF ~s.apiKey THEN catch(s2, c, "config") ELSE s2

\* ------------------------------------------------------------ onopen
onopenBody(s, c) ==
    LET s1 == setIsLive(setIsConnecting(s, FALSE), TRUE)
    IN  IF s1.mediaStreamRef = Null \/ s1.inputAudioContextRef = Null
        THEN s1
        ELSE [s1 EXCEPT !.mediaStreamSourceRef = c, !.scriptProcessorRef = c,
                        !.analyserRef = c, !.res[c].proc = "connected",
                        !.res[c].analyser = "connected",
                        !.animationFrameId = TRUE]

\* scriptProcessorRef.current.onaudioprocess of the processor of invocation c
onaudioprocess(s, c) ==
    IF s.sessionPromiseRef # Null
    THEN Then(s, s.sessionPromiseRef, "frame", c)
    ELSE s

\* ------------------------------------------------------------ onmessage
RECURSIVE TrimLeft(_)
TrimLeft(t) == IF t # <<>> /\ Head(t) = " " THEN TrimLeft(Tail(t)) ELSE t

RECURSIVE TrimRight(_)
TrimRight(t) ==
    IF t # <<>> /\ t[Len(t)] = " " THEN TrimRight(SubSeq(t, 1, Len(t) - 1)) ELSE t

Trim(t) == TrimRight(TrimLeft(t))

NoText == <<>>

\* onRefreshData() throws for this function call.
Throws(fc) == fc.name = "refresh_race_data" /\ fc.throws

\* One function call of message.toolCall.functionCalls.
toolCall(s, c, fc) ==
    LET s1 == [s EXCEPT !.toolCalls = Append(@, [sess |-> c, id |-> fc.id,
                                                  name |-> fc.name,
                                                  threw |-> Throws(fc)])]
    IN  IF fc.name = "refresh_race_data" /\ ~fc.throws
        THEN LET s2 == IF s1.sessionPromiseRef # Null
                       THEN Then(s1, s1.sessionPromiseRef, "tool", fc.id)
                       ELSE s1
             IN  [s2 EXCEPT !.timers = @ + 1]
        ELSE s1

\* The loop over the function calls; an exception of onRefreshData ends it.
RECURSIVE toolCalls_(_, _, _)
toolCalls_(s, c, fcs) ==
    IF fcs = <<>> THEN s
    ELSE IF Throws(Head(fcs)) THEN toolCall(s, c, Head(fcs))
    ELSE toolCalls_(toolCall(s, c, Head(fcs)), c, Tail(fcs))

\* The exception leaves the async onmessage: nothing after the loop runs.
Threw(m) == \E i \in DOMAIN m.tool : Throws(m.tool[i])

\* setCurrentUserTranscription(prev => prev + userText), and the model's.
transcription(s, m) ==
    IF ~s.mounted THEN s
    ELSE [s EXCEPT !.currentUserTranscription = @ \o m.user,
                   !.currentModelTranscription = @ \o m.model]

Turn(role, text) == [role |-> role, text |-> text]

\* The turns a turnComplete commits from the two full texts.
Committed(fullInput, fullOutput) ==
    (IF Trim(fullInput) # <<>> THEN <<Turn("user", Trim(fullInput))>> ELSE <<>>)
    \o (IF Trim(fullOutput) # <<>> THEN <<Turn("model", Trim(fullOutput))>>
        ELSE <<>>)

\* id: `user-${Date.now()}` / `model-${Date.now()}` of the turns committed at
\* millisecond now.
Ids(turns, now) == [i \in 1..Len(turns) |-> <<turns[i].role, now>>]

\* if (message.serverContent?.turnComplete): the accumulators read here are
\* the ones of the render in which handleConnect was called (calls[c]).
turnComplete(s, c, m) ==
    IF ~m.turnComplete \/ ~s.mounted THEN s
    ELSE [s EXCEPT !.transcriptionHistory =
                       @ \o Committed(s.calls[c].user \o m.user,
                                      s.calls[c].model \o m.model),
                   !.turnIds =
                       @ \o Ids(Committed(s.calls[c].user \o m.user,
                                          s.calls[c].model \o m.model),
                                s.dateNow),
                   !.currentUserTranscription = <<>>,
                   !.currentModelTranscription = <<>>,
                   !.obs.turnComplete = TRUE,
                   !.obs.user = m.user, !.obs.model = m.model]

MaxTakesClock(a, b) == b

Max(a, b) == IF a >= b THEN a ELSE b

NoDecode == [sess |-> Null, dur |-> 0, interrupted |-> FALSE]

\* if (message.serverContent?.interrupted)
interruptedKeepsSources(s, m) ==
    IF m.interrupted
    THEN [s EXCEPT !.nextAudioStartTime = 0, !.obs.interrupted = TRUE,
                   !.obs.stopped = Cardinality(s.playingAudioSources)]
    ELSE s

interrupted(s, m) ==
    IF m.interrupted
    THEN [s EXCEPT !.playingAudioSources = {}, !.nextAudioStartTime = 0,
                   !.obs.interrupted = TRUE,
                   !.obs.stopped = Cardinality(s.playingAudioSources)]
    ELSE s

\* onmessage up to `await decodeAudioData(...)`, or to its end when the
\* message carries no audio or there is no output context.
onmessageInterruptFirst(s, c, m) ==
    LET s1 == interrupted(
                  turnComplete(transcription(toolCalls_(s, c, m.tool), m), c, m), m)
    IN  IF Threw(m) THEN toolCalls_(s, c, m.tool)
        ELSE IF m.audio # 0 /\ s1.outputAudioContextRef # Null
        THEN [s1 EXCEPT !.nextAudioStartTime = Max(@, s1.clock),
                        !.decoding = [sess |-> c, dur |-> m.audio,
                                      interrupted |-> FALSE]]
        ELSE s1

onmessage(s, c, m) ==
    LET s1 == turnComplete(transcription(toolCalls_(s, c, m.tool), m), c, m)
    IN  IF Threw(m) THEN toolCalls_(s, c, m.tool)
        ELSE IF m.audio # 0 /\ s1.outputAudioContextRef # Null
        THEN [s1 EXCEPT !.nextAudioStartTime = Max(@, s1.clock),
                        !.decoding = [sess |-> c, dur |-> m.audio,
                                      interrupted |-> m.interrupted]]
        ELSE interrupted(s1, m)

\* The rest of onmessage, once the decoded buffer is there.
scheduleOverlapping(s) ==
    LET start == s.clock
        s1 == [s EXCEPT !.obs.start = start, !.obs.now = s.clock,
                        !.lastEnd = start + s.decoding.dur,
                        !.nextAudioStartTime = start + s.decoding.dur,
                        !.playingAudioSources =
                            @ \cup {<<start, start + s.decoding.dur>>},
                        !.decoding = NoDecode]
    IN  interrupted(s1, s.decoding)

schedule(s) ==
    LET start == s.nextAudioStartTime
        s1 == [s EXCEPT !.obs.start = start, !.obs.now = s.clock,
                        !.lastEnd = start + s.decoding.dur,
                        !.nextAudioStartTime = @ + s.decoding.dur,
                        !.playingAudioSources =
                            @ \cup {<<start, start + s.decoding.dur>>},
                        !.decoding = NoDecode]
    IN  interrupted(s1, s.decoding)

\* ------------------------------------------------------------ messages
NoMsg ==
    [tool |-> <<>>, user |-> NoText, model |-> NoText, turnComplete |-> FALSE,
     audio |-> 0, interrupted |-> FALSE]

\* Function calls get the ids the peer has not used yet.
ToolMsgs(n) ==
    {[NoMsg EXCEPT !.tool = <<[id |-> n + 1, name |-> a, throws |-> FALSE]>>] :
         a \in ToolNames}
    \cup {[NoMsg EXCEPT !.tool = <<[id |-> n + 1, name |-> a, throws |-> FALSE],
                                   [id |-> n + 2, name |-> b, throws |-> FALSE]>>] :
              a \in ToolNames, b \in ToolNames}

\* Function calls for which the onRefreshData given to the component throws.
FailingToolMsgs(n) ==
    {[NoMsg EXCEPT !.tool = <<[id |-> n + 1, name |-> "refresh_race_data",
                               throws |-> TRUE]>>]}

TextMsgs ==
    {[NoMsg EXCEPT !.user = d] : d \in Deltas}
    \cup {[NoMsg EXCEPT !.model = d] : d \in Deltas}
    \cup {[NoMsg EXCEPT !.turnComplete = TRUE]}
    \cup {[NoMsg EXCEPT !.model = d, !.turnComplete = TRUE] : d \in Deltas}
    \cup {[NoMsg EXCEPT !.user = d, !.turnComplete = TRUE] : d \in Deltas}

AudioMsgs ==
    {[NoMsg EXCEPT !.audio = d, !.interrupted = i] :
         d \in 1..MaxDur, i \in BOOLEAN}
    \cup {[NoMsg EXCEPT !.interrupted = TRUE]}

Kinds == {"tool", "text", "audio"}

\* The messages of the kinds the peer sends.
Msgs(n, kinds) ==
    (IF "tool" \in kinds THEN ToolMsgs(n) ELSE {})
    \cup (IF "failingTool" \in kinds THEN FailingToolMsgs(n) ELSE {})
    \cup (IF "text" \in kinds THEN TextMsgs ELSE {})
    \cup (IF "audio" \in kinds THEN AudioMsgs ELSE {})

\* Bookkeeping on the messages of session c: whether a text delta has come
\* since the session opened or since its last turnComplete.
noteDeltas(s, c, m) ==
    [s EXCEPT !.obs.silent = /\ m.turnComplete /\ ~s.calls[c].deltas
                             /\ m.user = NoText /\ m.model = NoText,
              !.calls[c].deltas =
                  IF m.turnComplete THEN FALSE
                  ELSE @ \/ m.user # NoText \/ m.model # NoText,
              !.nText = IF m.user # NoText \/ m.model # NoText \/ m.turnComplete
                        THEN @ + 1 ELSE @]

IsText(m) == m.user # NoText \/ m.model # NoText \/ m.turnComplete

\* The bounds of the model on what a message may add.
WithinBounds(s, c, m) ==
    /\ Len(s.toolCalls) + Len(m.tool) <= MaxToolCalls
    /\ IsText(m) => s.nText < MaxTextMsgs
    /\ Len(s.currentUserTranscription) + Len(m.user) <= MaxText
    /\ Len(s.currentModelTranscription) + Len(m.model) <= MaxText
    /\ m.turnComplete =>
           Len(s.transcriptionHistory)
               + Len(Committed(s.calls[c].user \o m.user,
                               s.calls[c].model \o m.model)) <= MaxHistory
    /\ m.audio # 0 => Max(s.nextAudioStartTime, s.clock) + m.audio <= MaxTime

\* ------------------------------------------------------------ initial state
InitSession ==
    /\ apiKey \in BOOLEAN
    /\ mounted = TRUE
    /\ isLive = FALSE
    /\ isConnecting = FALSE
    /\ error = "none"
    /\ transcriptionHistory = <<>>
    /\ currentUserTranscription = <<>>
    /\ currentModelTranscription = <<>>
    /\ rendered = [isLive |-> FALSE, isConnecting |-> FALSE, user |-> <<>>,
                   model |-> <<>>, hasHistory |-> FALSE]
    /\ sessionPromiseRef = Null
    /\ mediaStreamRef = Null
    /\ inputAudioContextRef = Null
    /\ outputAudioContextRef = Null
    /\ scriptProcessorRef = Null
    /\ mediaStreamSourceRef = Null
    /\ analyserRef = Null
    /\ animationFrameId = FALSE
    /\ playingAudioSources = {}
    /\ nextAudioStartTime = 0
    /\ calls = [c \in Calls |-> NoCall]
    /\ nCalls = 0
    /\ res = [c \in Calls |-> NoRes]
    /\ thens = <<>>
    /\ toolCalls = <<>>
    /\ toolResults = <<>>
    /\ nText = 0
    /\ timers = 0
    /\ clock = 0
    /\ lastEnd = -1
    /\ decoding = NoDecode
    /\ stored = [present |-> TRUE, value |-> <<>>]
    /\ speech = NoSpeech
    /\ dateNow = 0
    /\ turnIds = <<>>
    /\ obs = NoObs

Init == InitSession /\ codec = NoCodec

\* The codec alone, given a sequence of 16-bit samples.
InitCodec ==
    /\ InitSession
    /\ codec \in {[NoCodec EXCEPT !.pc = "samples", !.int16 = x] : x \in Samples}

\* The capture path of onaudioprocess alone, given one microphone frame.
InitPcm ==
    /\ InitSession
    /\ codec \in {[NoCodec EXCEPT !.pc = "input", !.inputData = x] : x \in Frames}

\* No task or event handler starts while onmessage is suspended at its await:
\* decodeAudioData has no await of its own, so the continuation is a microtask.
Idle == decoding = NoDecode

\* ------------------------------------------------------------ user actions
\* The Start / Retry button: `if (isLive || isConnecting) return;`
ClickConnect(max) ==
    /\ Idle /\ mounted /\ nCalls < max
    /\ ~rendered.isLive /\ ~rendered.isConnecting
    /\ Commit(render(handleConnect(Begin, nCalls + 1)))

\* The End Conversation button, shown when isLive.
ClickDisconnect ==
    /\ Idle /\ mounted /\ rendered.isLive
    /\ Commit(render(handleDisconnect(Begin,
                                      rendered.isLive, rendered.isConnecting)))

\* The Clear History button, shown when the history is not empty.
ClickClearHistory ==
    /\ Idle /\ mounted /\ rendered.hasHistory
    /\ Commit(render([Begin
                         EXCEPT !.transcriptionHistory = <<>>,
                                !.turnIds = <<>>,
                                !.currentUserTranscription = <<>>,
                                !.currentModelTranscription = <<>>,
                                !.stored = Removed]))

\* The component leaves the page: the effect's cleanup function runs.
unmount(s) ==
    IF ~s.mounted THEN s
    ELSE handleDisconnect([s EXCEPT !.mounted = FALSE],
                          s.rendered.isLive, s.rendered.isConnecting)

Unmount ==
    /\ Idle /\ mounted
    /\ Commit(unmount(Begin))

\* setTimeout(() => navigateTo('dashboard'), 5000) fires.
TimerFires ==
    /\ Idle /\ timers > 0
    /\ Commit(unmount([Begin EXCEPT !.timers = @ - 1]))

\* A render scheduled by a setter that was called outside a click handler.
Render ==
    /\ Idle /\ mounted /\ ~UpToDate(Cur)
    /\ Commit(render(Begin))

\* ------------------------------------------------------------ handleConnect
MicGranted(c) ==
    /\ Idle /\ calls[c].pc = "awaitMic"
    /\ \E suspIn \in BOOLEAN, suspOut \in BOOLEAN :
           Commit(micGranted(Begin, c, suspIn, suspOut))

MicDenied(c) ==
    /\ Idle /\ calls[c].pc = "awaitMic"
    /\ Commit(catch(Begin, c, "mic"))

ResumeIn(c) ==
    /\ Idle /\ calls[c].pc = "awaitResumeIn"
    /\ \E ok \in BOOLEAN, suspOut \in BOOLEAN :
           Commit(IF ok THEN afterResumeIn(Begin, c, suspOut)
                  ELSE catch(Begin, c, "device"))

ResumeOut(c) ==
    /\ Idle /\ calls[c].pc = "awaitResumeOut"
    /\ \E ok \in BOOLEAN :
           Commit(IF ok THEN liveConnect(Begin, c)
                  ELSE catch(Begin, c, "device"))

\* The buffer of a script processor is full: the event fires as long as the
\* node is connected and its onaudioprocess is set.
OnAudioProcess(c) ==
    /\ Idle /\ res[c].proc = "connected"
    /\ Commit(onaudioprocess(Begin, c))

\* ------------------------------------------------------------ transport
\* The socket opens: onopen runs, then the promise of live.connect resolves.
OnOpen(c) ==
    /\ Idle /\ res[c].session = "opening"
    /\ Commit(Resolve([onopenBody(Begin, c)
                          EXCEPT !.res[c].session = "open"], c))

OnMessage(c, kinds) ==
    /\ Idle /\ res[c].session \in {"open", "closing"}
    /\ \E m \in Msgs(Len(toolCalls), kinds) :
           /\ WithinBounds(Cur, c, m)
           /\ Commit(onmessage(noteDeltas(Begin, c, m), c, m))

AudioDecoded ==
    /\ decoding # NoDecode
    /\ Commit(schedule(Begin))

\* onerror: setError(...); cleanup()  -- the cleanup handleConnect closed over.
onerror(s) == cleanup(setError(s, "connection"), FALSE, FALSE)

OnError(c) ==
    /\ Idle /\ res[c].session \in {"opening", "open", "closing"}
    /\ Commit(onerror([Begin
                          EXCEPT !.res[c].session = "errored"]))

\* onclose: cleanup()
onclose(s) == cleanup(s, FALSE, FALSE)

OnClose(c) ==
    /\ Idle /\ res[c].session \in {"open", "closing", "errored"}
    /\ Commit(onclose([Begin
                          EXCEPT !.res[c].session = "closed"]))

\* ------------------------------------------------------------ audio device
\* The output device clock advances (also while a chunk is being decoded).
Tick ==
    /\ outputAudioContextRef # Null /\ clock < MaxClock
    /\ Commit([Begin EXCEPT !.clock = @ + 1])

\* The wall clock reaches the next millisecond.
Millisecond ==
    /\ dateNow < MaxNow
    /\ Commit([Begin EXCEPT !.dateNow = @ + 1])

\* 'ended' of a source that has played to its end.
SourceEnded ==
    /\ Idle
    /\ \E src \in playingAudioSources :
           /\ src[2] <= clock
           /\ Commit([Begin
                         EXCEPT !.playingAudioSources = @ \ {src}])

\* ------------------------------------------------------------ speak() steps
\* A component calls speak(); the call runs up to its first await.
Speak ==
    /\ speech.n < MaxSpeaks
    /\ Commit([Begin EXCEPT !.speech.n = @ + 1,
                            !.speech.pc[speech.n + 1] = "awaitResume"])

SpeakResumed(k) ==
    /\ speech.pc[k] = "awaitResume"
    /\ \E ok \in BOOLEAN : Commit(speakResumed(Begin, k, ok))

SpeakGenerated(k) ==
    /\ speech.pc[k] = "awaitGenerate"
    /\ \E outcome \in {"audio", "noAudio", "error"} :
           Commit(speakGenerated(Begin, k, outcome))

SpeakDecoded(k) ==
    /\ speech.pc[k] = "awaitDecode"
    /\ Commit(play(Begin, k))

\* The source has played its buffer to the end.
SpeechFinished(k) ==
    /\ speech.src[k] = "playing"
    /\ Commit([Begin EXCEPT !.speech.src[k] = "finished"])

\* The 'ended' event of a finished or stopped source is dispatched.
SpeechEnded(k) ==
    /\ speech.src[k] \in {"finished", "stopped"}
    /\ Commit(onended(Begin, k))

\* ------------------------------------------------------------ codec steps
\* const int16 = new Int16Array(l); the loop that fills it
Quantize ==
    /\ codec.pc = "input"
    /\ Commit([Begin EXCEPT !.codec.pc = "samples",
                            !.codec.int16 = Quantized(codec.inputData)])

\* data: encode(new Uint8Array(int16.buffer))
Encode ==
    /\ codec.pc = "samples"
    /\ Commit([Begin EXCEPT !.codec.pc = "encoded",
                            !.codec.data = encode(Uint8Array(codec.int16))])

\* const dataInt16 = new Int16Array(decode(base64Audio).buffer)
Decode ==
    /\ codec.pc = "encoded"
    /\ Commit([Begin EXCEPT !.codec.pc = "decoded",
                            !.codec.dataInt16 = Int16Array(decode(codec.data))])

\* ------------------------------------------------------------ specifications
\* The steps of handleConnect and of the transport, shared by all of them.
Connecting ==
    \/ \E c \in Calls : MicGranted(c)
    \/ \E c \in Calls : MicDenied(c)
    \/ \E c \in Calls : ResumeIn(c)
    \/ \E c \in Calls : ResumeOut(c)
    \/ \E c \in Calls : OnOpen(c)

Transport ==
    \/ \E c \in Calls : OnError(c)
    \/ \E c \in Calls : OnClose(c)

\* The whole program with a peer that sends every kind of message.
Next ==
    \/ ClickConnect(MaxConnects)
    \/ ClickDisconnect
    \/ ClickClearHistory
    \/ Unmount
    \/ TimerFires
    \/ Render
    \/ Connecting
    \/ \E c \in Calls : OnAudioProcess(c)
    \/ \E c \in Calls : OnMessage(c, Kinds)
    \/ AudioDecoded
    \/ Transport
    \/ Tick
    \/ SourceEnded
    \/ Millisecond

Spec == Init /\ [][Next]_vars

\* The session lifecycle: a peer that sends no message.
NextLife ==
    \/ ClickConnect(MaxConnects)
    \/ ClickDisconnect
    \/ Unmount
    \/ Render
    \/ Connecting
    \/ Transport

SpecLife == Init /\ [][NextLife]_vars

\* Capture: the lifecycle with the microphone frames of the script processors.
NextCapture ==
    \/ ClickConnect(MaxConnects)
    \/ ClickDisconnect
    \/ Unmount
    \/ Render
    \/ Connecting
    \/ \E c \in Calls : OnAudioProcess(c)
    \/ Transport

SpecCapture == Init /\ [][NextCapture]_vars

\* Text to speech: the calls of speak() made by the other components.
NextSpeak ==
    \/ Speak
    \/ \E k \in Speaks : SpeakResumed(k)
    \/ \E k \in Speaks : SpeakGenerated(k)
    \/ \E k \in Speaks : SpeakDecoded(k)
    \/ \E k \in Speaks : SpeechFinished(k)
    \/ \E k \in Speaks : SpeechEnded(k)

SpecSpeak == Init /\ [][NextSpeak]_vars

\* The audio codec on its own.
NextCodec == Encode \/ Decode

SpecCodec == InitCodec /\ [][NextCodec]_vars

\* The conversion of a microphone frame, followed by the codec.
NextPcm == Quantize \/ Encode \/ Decode

SpecPcm == InitPcm /\ [][NextPcm]_vars

\* Playback: a peer that sends audio chunks and interruptions.
NextAudio ==
    \/ ClickConnect(MaxSessions)
    \/ ClickDisconnect
    \/ Unmount
    \/ Render
    \/ Connecting
    \/ \E c \in Calls : OnMessage(c, {"audio"})
    \/ AudioDecoded
    \/ Transport
    \/ Tick
    \/ SourceEnded

SpecAudio == Init /\ [][NextAudio]_vars

\* Transcripts: a peer that sends text deltas and turnComplete.
NextText ==
    \/ ClickConnect(MaxSessions)
    \/ ClickDisconnect
    \/ ClickClearHistory
    \/ Unmount
    \/ Render
    \/ Connecting
    \/ \E c \in Calls : OnMessage(c, {"text"})
    \/ Transport

SpecText == Init /\ [][NextText]_vars

\* Turn ids: one session whose peer sends text, under a running wall clock.
NextIds ==
    \/ ClickConnect(1)
    \/ ClickClearHistory
    \/ Render
    \/ Connecting
    \/ \E c \in Calls : OnMessage(c, {"text"})
    \/ Millisecond

SpecIds == Init /\ [][NextIds]_vars

\* Tool calls: a peer that sends function calls.
NextTool ==
    \/ ClickConnect(MaxSessions)
    \/ ClickDisconnect
    \/ Unmount
    \/ TimerFires
    \/ Render
    \/ Connecting
    \/ \E c \in Calls : OnMessage(c, {"tool"})
    \/ Transport

SpecTool == Init /\ [][NextTool]_vars

\* Outbound messages: microphone frames and tool responses.
NextSend ==
    \/ ClickConnect(MaxSessions)
    \/ ClickDisconnect
    \/ Unmount
    \/ TimerFires
    \/ Render
    \/ Connecting
    \/ \E c \in Calls : OnAudioProcess(c)
    \/ \E c \in Calls : OnMessage(c, {"tool"})
    \/ Transport

SpecSend == Init /\ [][NextSend]_vars

\* Tool calls where the component was given an onRefreshData that may throw.
NextToolFailing ==
    \/ ClickConnect(MaxSessions)
    \/ ClickDisconnect
    \/ Unmount
    \/ TimerFires
    \/ Render
    \/ Connecting
    \/ \E c \in Calls : OnMessage(c, {"tool", "failingTool"})
    \/ Transport

SpecToolFailing == Init /\ [][NextToolFailing]_vars

\* ------------------------------------------------------------ claims
Open(f, vals) == {c \in Calls : res[c][f] \in vals}

Results(id) == {k \in DOMAIN toolResults : toolResults[k].id = id}

Waiting(id) ==
    \E k \in DOMAIN thens : thens[k].kind = "tool" /\ thens[k].id = id

\* C1: every tool call onmessage has received has exactly one tool response
\* with its id, or its response still waits for the session promise; for
\* every function name, also one that has no local handler.
C1_EveryToolCallAnswered ==
    \A i \in DOMAIN toolCalls :
        Waiting(toolCalls[i].id) \/ Cardinality(Results(toolCalls[i].id)) = 1

\* The text of the one role that has text when a turnComplete is handled:
\* what arrived for it before, followed by the delta of the message itself.
OnlyRole(u, m) ==
    IF Trim(u) # <<>> /\ m = <<>> THEN <<Turn("user", Trim(u))>>
    ELSE IF Trim(m) # <<>> /\ u = <<>> THEN <<Turn("model", Trim(m))>>
    ELSE <<>>

\* C2: when a turnComplete is handled after deltas of one role only, the log
\* gains exactly one turn, of that role, whose text is the concatenation of
\* the deltas in arrival order, trimmed.
C2_TurnAssembly ==
    [][obs'.turnComplete =>
          LET u == currentUserTranscription \o obs'.user
              m == currentModelTranscription \o obs'.model
          IN  OnlyRole(u, m) # <<>> =>
                  transcriptionHistory' = transcriptionHistory \o OnlyRole(u, m)]_vars

\* C3: no object is ever released twice, and a step that calls cleanup (once,
\* or twice in a row) leaves every member of the ResourceSet empty after each
\* of the calls.
C3_TeardownIdempotent ==
    /\ \A c \in Calls : ~res[c].twice
    /\ obs.cleanups > 0 => obs.emptyAfterEach /\ ResourceSetEmpty(Cur)

\* cleanup ran twice in one step, on a set an earlier teardown had released.
C3_Witness == obs.cleanups = 2 /\ obs.repeated /\ TornDown(Cur)

\* C4 as stated: a chunk's scheduled start is never before the scheduled end
\* of the chunk started before it on the same output context.
C4_NoOverlapOriginal == [][obs'.start >= 0 => obs'.start >= lastEnd]_vars

\* C4 amended: a chunk's scheduled start is never before the scheduled end of
\* a chunk that is still in playingAudioSources (one that no interruption or
\* teardown has stopped).
C4_NoOverlap ==
    [][obs'.start >= 0 =>
          \A src \in playingAudioSources : obs'.start >= src[2]]_vars

\* A chunk was started right at the end of one that is still playing.
C4_Witness ==
    /\ obs.start > 0
    /\ \E src \in playingAudioSources : src[2] = obs.start

\* C5: the start time passed to source.start() is never before the device
\* clock at the moment of the call.
C5_NotInThePast == [][obs'.start >= 0 => obs'.start >= obs'.now]_vars

\* C6 as stated: after an interruption is handled the playing set is empty
\* and nextAudioStartTime equals the clock of the output context.
C6_InterruptOriginal ==
    [][obs'.interrupted /\ outputAudioContextRef' # Null =>
          playingAudioSources' = {} /\ nextAudioStartTime' = clock']_vars

\* C6 amended: after an interruption is handled the playing set is empty and
\* nextAudioStartTime is 0; a chunk enqueued while nextAudioStartTime is 0
\* gets the clock of the output context, read at that moment, as start time.
C6_Interrupt ==
    /\ [][obs'.interrupted =>
             playingAudioSources' = {} /\ nextAudioStartTime' = 0]_vars
    /\ [][decoding = NoDecode /\ decoding' # NoDecode /\ nextAudioStartTime = 0
             => nextAudioStartTime' = clock]_vars

\* An interruption stopped a playing chunk at a moment the clock was not 0.
C6_Witness == obs.interrupted /\ obs.stopped > 0 /\ clock > 0

DeniedLast(c) ==
    calls[c].pc = "failed" /\ calls[c].err = "mic" /\ c = nCalls /\ mounted

\* C7: while handleConnect waits for the microphone the controller is
\* Connecting with an empty ResourceSet; the denial surfaces the microphone
\* error and leaves isConnecting and isLive false and the set empty; and
\* until the next connect the controller stays so, so that once rendered
\* the guard of handleConnect lets the next request through.
C7_MicDenied ==
    /\ [](\A c \in Calls :
            /\ calls[c].pc = "awaitMic" => ResourceSetEmpty(Cur)
            /\ calls[c].pc = "awaitMic" /\ mounted => isConnecting /\ ~isLive
            /\ DeniedLast(c) =>
                  /\ ~isLive /\ ~isConnecting /\ ResourceSetEmpty(Cur)
                  /\ error # "none"
                  /\ rendered = RenderedOf(Cur) =>
                         ~rendered.isLive /\ ~rendered.isConnecting)
    /\ [][\A c \in Calls :
             calls[c].pc = "awaitMic" /\ calls'[c].pc = "failed"
             /\ calls'[c].err = "mic" /\ mounted => error' = "mic"]_vars

\* The microphone was denied, the result is rendered, Retry is on offer.
C7_Witness ==
    \E c \in Calls :
        DeniedLast(c) /\ error = "mic" /\ rendered = RenderedOf(Cur)
        /\ ~rendered.isLive /\ ~rendered.isConnecting

\* C8: the ResourceSet is fully allocated while Connecting or Live and empty
\* while Idle.
C8_ResourceSetInvariant ==
    /\ (isLive \/ isConnecting) => ResourceSetFull(Cur)
    /\ ~(isLive \/ isConnecting) => ResourceSetEmpty(Cur)

\* C9: a step in which the transport of a session reports an error or closes
\* leaves the mounted controller Idle with an empty ResourceSet.
C9_TransportCloseReachesIdle ==
    [][(\E c \in Calls :
           /\ res'[c].session \in {"errored", "closed"}
           /\ res'[c].session # res[c].session)
       /\ mounted
       => ~isLive' /\ ~isConnecting' /\ ResourceSetEmpty(Cur)']_vars

\* C10: at most one transport session is open, at most one microphone stream
\* is live and at most one pair of audio contexts is open.
C10_AtMostOneSession ==
    /\ Cardinality(Open("session", {"open"})) <= 1
    /\ Cardinality(Open("mic", {"open"})) <= 1
    /\ Cardinality(Open("inCtx", {"open"})) <= 1
    /\ Cardinality(Open("outCtx", {"open"})) <= 1

\* C11: sendRealtimeInput is never called with a frame of a script processor
\* that cleanup has already taken out of the audio graph (one that is no longer
\* the referenced processor).
C11_NoFrameAfterStop == ~obs.lateFrame

\* A processor that has had frames sent is torn down, and a later session is
\* being opened.
C11_Witness ==
    \E c \in Calls :
        /\ res[c].sent /\ res[c].proc = "disconnected"
        /\ sessionPromiseRef # Null /\ sessionPromiseRef # c

\* The refs, flags and objects that belong to the latest connect request.
LaterSession ==
    <<isLive, isConnecting, error, sessionPromiseRef, mediaStreamRef,
      inputAudioContextRef, outputAudioContextRef, scriptProcessorRef,
      mediaStreamSourceRef, analyserRef, res[nCalls]>>

\* C12: a step in which the transport of an earlier session (one followed by a
\* later connect request) opens, reports an error or closes leaves the flags,
\* the error, the refs and the objects of the latest session unchanged.
C12_LateCallbacksNoOp ==
    [][\A c \in Calls :
           /\ c < nCalls
           /\ res'[c].session \in {"open", "errored", "closed"}
           /\ res'[c].session # res[c].session
           => LaterSession' = LaterSession]_vars

\* No microphone stream, audio context or transport session is held or open.
NothingHeld ==
    /\ ResourceSetEmpty(Cur)
    /\ Open("mic", {"open"}) = {}
    /\ Open("inCtx", {"open"}) = {}
    /\ Open("outCtx", {"open"}) = {}
    /\ Open("session", {"opening", "open"}) = {}

\* No step of handleConnect is pending and no socket is being opened.
Settled ==
    \A c \in Calls :
        /\ calls[c].pc \notin {"awaitMic", "awaitResumeIn", "awaitResumeOut"}
        /\ res[c].session # "opening"

\* C13: once the component is unmounted and the steps that were pending at
\* the unmount have run, nothing is held: no microphone stream, audio context
\* or transport session was acquired after the unmount or is left open, also
\* when the unmount came while handleConnect awaited the microphone or a
\* resume().
C13_DestroyedOnUnmount == ~mounted /\ Settled => NothingHeld

\* C14: without the API key no object is ever created, and the step of a
\* connect request ends with the configuration error surfaced, isConnecting
\* and isLive false (and rendered so, which lets the next request through),
\* an empty ResourceSet and no microphone request pending.
C14_MissingKeyFailsFast ==
    /\ [](~apiKey => \A c \in Calls : res[c] = NoRes)
    /\ [][~apiKey /\ nCalls' # nCalls =>
             /\ error' = "config"
             /\ calls'[nCalls'].pc = "failed" /\ calls'[nCalls'].err = "config"
             /\ ~isConnecting' /\ ~isLive' /\ ResourceSetEmpty(Cur)'
             /\ ~rendered'.isConnecting /\ ~rendered'.isLive]_vars

\* A second request was made without the key (the Retry button), and failed
\* the same way.
C14_Witness ==
    /\ ~apiKey /\ nCalls = 2 /\ calls[2].err = "config" /\ error = "config"
    /\ ~isConnecting /\ ResourceSetEmpty(Cur)

\* C15: the samples read back from the decoded transport text are the samples
\* whose bytes were encoded.
C15_RoundTrip == codec.pc = "decoded" => codec.dataInt16 = codec.int16

\* A single negative sample went through: its two bytes need padding.
C15_Witness ==
    /\ codec.pc = "decoded" /\ Len(codec.int16) = 1 /\ codec.int16[1] < 0
    /\ codec.data[Len(codec.data)] = Pad

\* C16: a turnComplete that carries no delta, handled when its session has
\* received no delta since it opened or since its previous turnComplete,
\* leaves the committed log unchanged.
C16_EmptyTurnCommitsNothing ==
    [][obs'.turnComplete /\ obs'.silent =>
          transcriptionHistory' = transcriptionHistory]_vars

\* C17 as stated: while no new connect request is made, no step decreases
\* nextAudioStartTime, whatever message it handles.
C17_NonDecreasingOriginal ==
    [][nCalls' = nCalls => nextAudioStartTime' >= nextAudioStartTime]_vars

\* C17 amended: a step that handles no interruption never decreases
\* nextAudioStartTime (an interruption resets it to 0).
C17_NonDecreasing ==
    [][~obs'.interrupted => nextAudioStartTime' >= nextAudioStartTime]_vars

\* Two chunks are scheduled one after the other and the second one has
\* advanced nextAudioStartTime past the end of the first.
C17_Witness ==
    /\ Cardinality(playingAudioSources) = 2
    /\ \A src \in playingAudioSources : src[2] <= nextAudioStartTime
    /\ \E src \in playingAudioSources : src[2] < nextAudioStartTime

\* C18: after the step that handles an interruption no source is left in
\* playingAudioSources and no chunk received with or before the signal is
\* still waiting for its decode, so that none of them can start later.
C18_BargeIn ==
    [][obs'.interrupted =>
          playingAudioSources' = {} /\ decoding' = NoDecode]_vars

\* The signal came in the message of a chunk: that chunk and one scheduled
\* before it were both stopped.
C18_Witness == obs.interrupted /\ obs.start >= 0 /\ obs.stopped = 2

\* C19: a step in which the latest connect request fails after the
\* microphone was acquired (a resume() rejects, or the socket reports an
\* error before it opens) leaves the mounted controller with isConnecting and
\* isLive false, an error surfaced, an empty ResourceSet and the microphone
\* stream and both audio contexts of the request released.
C19_AcquisitionFailureRollsBack ==
    [][\A c \in Calls :
           /\ mounted /\ c = nCalls
           /\ \/ /\ calls[c].pc \in {"awaitResumeIn", "awaitResumeOut"}
                 /\ calls'[c].pc = "failed"
              \/ /\ res[c].session = "opening"
                 /\ res'[c].session = "errored"
           => /\ ~isConnecting' /\ ~isLive' /\ error' # "none"
              /\ ResourceSetEmpty(Cur)'
              /\ res'[c].mic # "open" /\ res'[c].inCtx # "open"
              /\ res'[c].outCtx # "open"]_vars

\* C20: every function call whose onRefreshData threw has a tool response
\* with its id, sent or waiting for the session promise.
C20_FailedHandlerAnswered ==
    \A i \in DOMAIN toolCalls :
        toolCalls[i].threw =>
            Waiting(toolCalls[i].id) \/ Results(toolCalls[i].id) # {}

\* The order of the parts of one teardown.
TeardownOrder ==
    <<"visualization", "playback", "graph", "contexts", "microphone", "session">>

\* C21: the parts of cleanup a step runs come in the order visualization,
\* playback, audio graph, audio contexts, microphone, transport handle, once
\* per call of cleanup.
C21_TeardownOrder ==
    /\ Len(obs.steps) = obs.cleanups * Len(TeardownOrder)
    /\ \A i \in DOMAIN obs.steps :
           obs.steps[i] = TeardownOrder[((i - 1) % Len(TeardownOrder)) + 1]

\* A teardown of a live session: it stopped the loop and released the objects.
C21_Witness ==
    /\ obs.cleanups = 1 /\ obs.steps = TeardownOrder
    /\ \E c \in Calls : res[c].proc = "disconnected" /\ res[c].mic = "stopped"

\* C22: every sendRealtimeInput and sendToolResponse is made on the session
\* sessionPromiseRef refers to at the time of the send, and that session is
\* open (close() has not been called on it).
C22_SendOnCurrentHandle == ~obs.staleSend

\* The session that received the function call with this id.
SessOf(id) ==
    LET i == CHOOSE i \in DOMAIN toolCalls : toolCalls[i].id = id
    IN  toolCalls[i].sess

\* C23: of two tool responses for calls received by the same session, the
\* one for the call received first (the smaller id) is sent first.
C23_ToolResultsInOrder ==
    \A i \in DOMAIN toolResults : \A j \in DOMAIN toolResults :
        i < j /\ SessOf(toolResults[i].id) = SessOf(toolResults[j].id)
            => toolResults[i].id < toolResults[j].id

\* Two calls received by one session were answered after both had waited for
\* the promise of another session.
C23_Witness ==
    /\ Len(toolResults) = 2
    /\ SessOf(toolResults[1].id) = SessOf(toolResults[2].id)
    /\ toolResults[1].on # SessOf(toolResults[1].id)
    /\ toolResults[2].on # SessOf(toolResults[2].id)

\* A session that no teardown has touched: open, and still the one
\* sessionPromiseRef refers to.
Intact(c) == res[c].session = "open" /\ sessionPromiseRef = c

\* C24: the navigation timer of a tool call only fires while a session is
\* intact; when every session has been torn down no timer fires any more.
C24_NoNavigationAfterTeardown ==
    [][timers' < timers => \E c \in Calls : Intact(c)]_vars

\* C25: every step that changes the storage item leaves in it exactly the
\* committed log of that moment (after Clear History: the emptied log); the
\* accumulators are never part of what is stored.
C25_OnlyCommittedTurnsPersisted ==
    /\ [][stored' # stored =>
             stored' = [present |-> TRUE, value |-> transcriptionHistory']]_vars
    /\ [](stored.present)

\* Committed turns are stored while a fragment sits in an accumulator.
C25_Witness ==
    /\ stored.present /\ stored.value # <<>>
    /\ stored.value = transcriptionHistory
    /\ currentUserTranscription \o currentModelTranscription # <<>>

\* C26: at most one speech source is playing, the playing one is the one
\* currentSpeechSource refers to, and currentSpeechSource is either null or
\* the source that was started last.
C26_NoSpeechOverlap ==
    /\ Cardinality({k \in Speaks : speech.src[k] = "playing"}) <= 1
    /\ \A k \in Speaks :
           speech.src[k] = "playing" => speech.currentSpeechSource = k
    /\ speech.currentSpeechSource \in {Null, speech.started}

\* A later call finished first and started its source; the earlier call then
\* stopped it and plays.
C26_Witness ==
    \E j \in Speaks : \E k \in Speaks :
        /\ j < k /\ speech.src[k] = "stopped" /\ speech.src[j] = "playing"
        /\ speech.currentSpeechSource = j

\* The transport of some session reports an error or closes in this step.
TransportEvent ==
    \E c \in Calls :
        /\ res'[c].session \in {"errored", "closed"}
        /\ res'[c].session # res[c].session

\* C27: from the state onopen leaves (Live with a full ResourceSet, the
\* change not rendered yet, so that no End Conversation button is on offer),
\* a step that is neither a transport error or close nor the unmount keeps
\* the controller Live, the ResourceSet full and the session open.
C27_LiveStaysLive ==
    [][/\ isLive /\ ~rendered.isLive /\ ResourceSetFull(Cur)
       /\ res[sessionPromiseRef].session = "open"
       /\ mounted' /\ ~TransportEvent
       => /\ isLive' /\ ResourceSetFull(Cur)'
          /\ res'[sessionPromiseRef].session = "open"]_vars

\* C28: the first chunk a session enqueues on its output context (no chunk
\* has been started on that context yet) gets the clock of that context as
\* its start time.
C28_NoCarryOverBetweenSessions ==
    [][/\ decoding = NoDecode /\ decoding' # NoDecode /\ lastEnd = -1
       /\ decoding'.sess = outputAudioContextRef
       => nextAudioStartTime' = clock]_vars

Sign(x) == IF x > 0 THEN 1 ELSE IF x < 0 THEN -1 ELSE 0

\* C29: every sample of a converted frame is a 16-bit value of the same sign
\* as the input sample, and the conversion keeps the order of the samples:
\* a larger input never gives a smaller output.
C29_NoWrapAround ==
    codec.pc = "samples" /\ codec.inputData # <<>> =>
        /\ \A i \in DOMAIN codec.inputData :
              /\ codec.int16[i] \in -32768..32767
              /\ Sign(codec.int16[i]) = Sign(codec.inputData[i])
        /\ \A i, j \in DOMAIN codec.inputData :
              codec.inputData[i] <= codec.inputData[j]
                  => codec.int16[i] <= codec.int16[j]

\* C30: no two entries of the committed log have the same id.
C30_UniqueIds ==
    /\ Len(turnIds) = Len(transcriptionHistory)
    /\ \A i, j \in DOMAIN turnIds : turnIds[i] = turnIds[j] => i = j

====
